---- MODULE Spec2Model ----
(***************************************************************************)
(* Model of download_scripts/postgres_load_data.py: the loader that drops, *)
(* re-creates, bulk-copies and primary-keys one database table per         *)
(* wrangled CSV file, run over the fixed Lahman and Retrosheet file lists. *)
(*                                                                         *)
(* Strings whose characters the code inspects (file names, prefixes, table *)
(* names) are sequences of one-character strings; a Path is a record of    *)
(* its directory parts and its final component (Path.name).                *)
(***************************************************************************)
EXTENDS Naturals, Sequences, FiniteSets, TLC

VARIABLES
    args_data_dir,  \* value of the --data-dir flag (args.data_dir)
    script,         \* the calls the run makes, in order
    ip,             \* index in script of the call being made
    pc,             \* position inside create_and_load_table ("idle" outside)
    status,         \* "start", "running", "failed" (uncaught exception), "done"
    table,          \* local `table` of create_and_load_table
    df,             \* local `df`: column -> in-memory type (zero rows)
    db_dtypes,      \* local `db_dtypes`: column -> database type
    fs,             \* file system: Path -> file
    db,             \* database: table name -> table, for the existing tables
    trace,          \* the reads and statements of this run, in order
    db0,            \* the database as it was when the current call began
    run,            \* number of the run (process) in progress
    history         \* outcome of each earlier run

vars == <<args_data_dir, script, ip, pc, status, table, df, db_dtypes, fs, db,
          trace, db0, run, history>>

\* ------------------------------------------------------------------ bounds

\* Most data rows a source file holds.
MaxRows == 2

\* Most runs of the same load call an operator makes in succession.
MaxRuns == 2

\* ----------------------------------------------------------------- strings

lahman_ == <<"l","a","h","m","a","n","_">>
retro_ == <<"r","e","t","r","o","_">>
people_csv == <<"p","e","o","p","l","e",".","c","s","v">>
batting_csv == <<"b","a","t","t","i","n","g",".","c","s","v">>
battingpost_csv == <<"b","a","t","t","i","n","g","p","o","s","t",".","c","s","v">>
pitching_csv == <<"p","i","t","c","h","i","n","g",".","c","s","v">>
pitchingpost_csv == <<"p","i","t","c","h","i","n","g","p","o","s","t",".","c","s","v">>
fielding_csv == <<"f","i","e","l","d","i","n","g",".","c","s","v">>
fieldingpost_csv == <<"f","i","e","l","d","i","n","g","p","o","s","t",".","c","s","v">>
parks_csv == <<"p","a","r","k","s",".","c","s","v">>
salaries_csv == <<"s","a","l","a","r","i","e","s",".","c","s","v">>
teams_csv == <<"t","e","a","m","s",".","c","s","v">>
batting_csv_gz == <<"b","a","t","t","i","n","g",".","c","s","v",".","g","z">>
pitching_csv_gz == <<"p","i","t","c","h","i","n","g",".","c","s","v",".","g","z">>
fielding_csv_gz == <<"f","i","e","l","d","i","n","g",".","c","s","v",".","g","z">>
game_csv_gz == <<"g","a","m","e",".","c","s","v",".","g","z">>
team_game_csv_gz == <<"t","e","a","m","_","g","a","m","e",".","c","s","v",".","g","z">>
lahman_people == <<"l","a","h","m","a","n","_","p","e","o","p","l","e">>
lahman_teams == <<"l","a","h","m","a","n","_","t","e","a","m","s">>

DotGz == <<".","g","z">>

\* str.split('.'): the segments of s between its dots (never empty).
RECURSIVE Split(_)
Split(s) ==
    IF \A i \in 1..Len(s) : s[i] # "."
    THEN <<s>>
    ELSE LET i == CHOOSE k \in 1..Len(s) :
                      s[k] = "." /\ \A j \in 1..(k-1) : s[j] # "."
         IN  <<SubSeq(s, 1, i-1)>> \o Split(SubSeq(s, i+1, Len(s)))

\* str.endswith(suffix)
EndsWith(s, suffix) ==
    /\ Len(s) >= Len(suffix)
    /\ SubSeq(s, Len(s) - Len(suffix) + 1, Len(s)) = suffix

\* ', '.join(items): the items with the separator between neighbours.
RECURSIVE Join(_)
Join(items) ==
    IF Len(items) = 0 THEN <<>>
    ELSE IF Len(items) = 1 THEN <<items[1]>>
    ELSE <<items[1], ", ">> \o Join(Tail(items))

\* ------------------------------------------------------------------- paths

Path(parts, name) == [parts |-> parts, name |-> name]

NoPath == Path(<<>>, <<>>)

\* A primary-key argument: Python's None, or a list of column names.
None == [none |-> TRUE, cols |-> <<>>]
Cols(cs) == [none |-> FALSE, cols |-> cs]

\* Python truthiness of `pkey`: None and the empty list are false.
Truthy(pkey) == ~pkey.none /\ Len(pkey.cols) > 0

\* ---------------------------------------------------------------- database

EmptyMap == [c \in {} |-> ""]

Range(f) == {f[x] : x \in DOMAIN f}

\* The key values of a row, in the order of the key's columns.
Project(row, cols) == [i \in 1..Len(cols) |-> row[cols[i]]]

NoDuplicates(s) == \A i, j \in 1..Len(s) : i # j => s[i] # s[j]

\* Outcome of a statement: did it succeed, and the database after it.
Result(ok, d) == [ok |-> ok, db |-> d]

\* The column list of a statement as the database reads it back:
\* the names between the ", " separators.
ParseColumnList(tokens) ==
    [i \in 1..((Len(tokens) + 1) \div 2) |-> tokens[2 * i - 1]]

\* Variant: the drop is left out, the table stays.
DropTableIfExists_Kept(d, t) == Result(TRUE, d)

\* DROP TABLE IF EXISTS t CASCADE: t and its constraints go; no error when absent.
DropTableIfExists(d, t) ==
    Result(TRUE, [x \in (DOMAIN d) \ {t} |-> d[x]])

\* df.to_sql(t, conn, index=False, dtype=dtypes) on a zero-row frame: creates
\* the empty table with the frame's columns; if_exists defaults to 'fail'.
ToSql(d, t, frame, dtypes) ==
    IF t \in DOMAIN d
    THEN Result(FALSE, d)
    ELSE Result(TRUE,
                d @@ (t :> [cols  |-> [c \in DOMAIN frame |->
                                         IF c \in DOMAIN dtypes THEN dtypes[c]
                                         ELSE "Text"],
                            rows  |-> <<>>,
                            pkey  |-> <<>>,
                            uniq  |-> {}]))

\* Can the key `cols` be put on table t of d: distinct existing columns whose
\* values differ from row to row.
KeyFits(d, t, cols) ==
    /\ t \in DOMAIN d
    /\ Len(cols) > 0
    /\ NoDuplicates(cols)
    /\ \A i \in 1..Len(cols) : cols[i] \in DOMAIN d[t].cols
    /\ NoDuplicates([k \in 1..Len(d[t].rows) |-> Project(d[t].rows[k], cols)])

\* ALTER TABLE t ADD PRIMARY KEY (<tokens>): all or nothing.
AddPrimaryKey(d, t, tokens) ==
    LET cols == ParseColumnList(tokens) IN
    IF KeyFits(d, t, cols) /\ d[t].pkey = <<>>
    THEN Result(TRUE, [d EXCEPT ![t].pkey = cols])
    ELSE Result(FALSE, d)

\* ALTER TABLE t ADD CONSTRAINT name UNIQUE (<cols>): all or nothing.
AddUnique(d, t, cols) ==
    IF KeyFits(d, t, cols)
    THEN Result(TRUE, [d EXCEPT ![t].uniq = @ \cup {cols}])
    ELSE Result(FALSE, d)

\* \copy t from ... CSV HEADER, run by the psql client: the file's data rows
\* are appended to t, or (malformed input, wrong encoding for the command
\* form, missing table or file, key violation) nothing is and psql exits 1.
CopyFits(d, files, cmd) ==
    /\ cmd.table \in DOMAIN d
    /\ cmd.path \in DOMAIN files
    /\ files[cmd.path].readable
    /\ ~files[cmd.path].malformed
    /\ (cmd.form = "program zcat") = files[cmd.path].gzipped
    /\ \A k \in 1..Len(files[cmd.path].rows) :
          DOMAIN files[cmd.path].rows[k] = DOMAIN d[cmd.table].cols
    /\ LET all == d[cmd.table].rows \o files[cmd.path].rows IN
       \/ d[cmd.table].pkey = <<>>
       \/ NoDuplicates([k \in 1..Len(all) |-> Project(all[k], d[cmd.table].pkey)])

Copy(d, files, cmd) ==
    IF CopyFits(d, files, cmd)
    THEN [returncode |-> 0,
          db |-> [d EXCEPT ![cmd.table].rows = @ \o files[cmd.path].rows]]
    ELSE [returncode |-> 1, db |-> d]

\* SELECT COUNT(*) from t
CountRows(d, t) == IF t \in DOMAIN d THEN Len(d[t].rows) ELSE 0

\* ----------------------------------------------------------- data_helper

Classifiable == {"int16", "int64", "object"}

\* dh.from_csv_with_types(filename, nrows=0): the column types of the file,
\* no data rows; a missing or unreadable file is an error.
from_csv_with_types(files, filename) ==
    IF filename \in DOMAIN files /\ files[filename].readable
    THEN [ok |-> TRUE, df |-> files[filename].dtypes]
    ELSE [ok |-> FALSE, df |-> EmptyMap]

\* dh.optimize_db_dtypes(df): a database type per column; a type it cannot
\* classify is an error.
optimize_db_dtypes(frame) ==
    IF \A c \in DOMAIN frame : frame[c] \in Classifiable
    THEN [ok |-> TRUE,
          dtypes |-> [c \in DOMAIN frame |->
                        CASE frame[c] = "int16" -> "SmallInteger"
                          [] frame[c] = "int64" -> "BigInteger"
                          [] OTHER -> "Text"]]
    ELSE [ok |-> FALSE, dtypes |-> EmptyMap]

\* ----------------------------------------------- create_and_load_table

\* Variant: only the last extension is stripped (rsplit('.', 1)[0]).
TableName_LastExtension(prefix, filename) ==
    LET segs == Split(filename.name)
        stem == SubSeq(filename.name, 1,
                       Len(filename.name) - (IF Len(segs) = 1 THEN 0
                                             ELSE Len(segs[Len(segs)]) + 1))
    IN prefix \o stem

\* table = prefix + filename.name.split('.')[0]
TableName(prefix, filename) == prefix \o Split(filename.name)[1]

\* Variant: the '.gz' branch is missing, every file is read directly.
CopyCmd_AlwaysFile(t, filename) ==
    [form |-> "file", table |-> t, path |-> filename]

\* The \copy command: through zcat for a '.gz' name, from the file otherwise.
CopyCmd(t, filename) ==
    IF EndsWith(filename.name, DotGz)
    THEN [form |-> "program zcat", table |-> t, path |-> filename]
    ELSE [form |-> "file", table |-> t, path |-> filename]

\* Variant: the return code is not looked at.
PsqlRaises_Never(returncode) == FALSE

\* psql raises FileNotFoundError when the client's return code is not 0.
PsqlRaises(returncode) == returncode # 0

\* psql(cmd): run the client on the command, log its output, raise on a
\* non-zero return code.
psql(d, files, cmd) ==
    LET p1 == Copy(d, files, cmd)
    IN [returncode |-> p1.returncode,
        raised     |-> PsqlRaises(p1.returncode),
        db         |-> p1.db]

\* Variant: the columns are joined in reverse order.
RECURSIVE Reverse(_)
Reverse(items) ==
    IF Len(items) = 0 THEN <<>>
    ELSE Reverse(Tail(items)) \o <<items[1]>>

pkeys_str_Reversed(pkey) == Join(Reverse(pkey))

\* pkeys_str = ', '.join(pkey)
pkeys_str(pkey) == Join(pkey)

\* Variant: the key is added to the empty table, before the copy.
StepAfter_KeyBeforeCopy(step, pkey) ==
    CASE step = "call"   -> "read"
      [] step = "read"   -> "types"
      [] step = "types"  -> "drop"
      [] step = "drop"   -> "create"
      [] step = "create" -> IF Truthy(pkey) THEN "pkey" ELSE "copy"
      [] step = "pkey"   -> "copy"
      [] step = "copy"   -> "count"
      [] OTHER           -> "return"

\* Variant: the rows are counted before the key is added.
StepAfter_CountBeforeKey(step, pkey) ==
    CASE step = "call"   -> "read"
      [] step = "read"   -> "types"
      [] step = "types"  -> "drop"
      [] step = "drop"   -> "create"
      [] step = "create" -> "copy"
      [] step = "copy"   -> "count"
      [] step = "count"  -> IF Truthy(pkey) THEN "pkey" ELSE "return"
      [] OTHER           -> "return"

\* Variant: the table is not dropped and re-created, the copy goes into
\* whatever is there.
StepAfter_NoRecreate(step, pkey) ==
    CASE step = "call"   -> "read"
      [] step = "read"   -> "types"
      [] step = "types"  -> "copy"
      [] step = "drop"   -> "create"
      [] step = "create" -> "copy"
      [] step = "copy"   -> IF Truthy(pkey) THEN "pkey" ELSE "count"
      [] step = "pkey"   -> "count"
      [] OTHER           -> "return"

\* Variant: the table is dropped before the source file is read.
StepAfter_DropFirst(step, pkey) ==
    CASE step = "call"   -> "drop"
      [] step = "drop"   -> "read"
      [] step = "read"   -> "types"
      [] step = "types"  -> "create"
      [] step = "create" -> "copy"
      [] step = "copy"   -> IF Truthy(pkey) THEN "pkey" ELSE "count"
      [] step = "pkey"   -> "count"
      [] OTHER           -> "return"

\* The step that follows `step` when it raised nothing: the statement order
\* of create_and_load_table, with its one branch on `pkey`.
StepAfter(step, pkey) ==
    CASE step = "call"   -> "read"
      [] step = "read"   -> "types"
      [] step = "types"  -> "drop"
      [] step = "drop"   -> "create"
      [] step = "create" -> "copy"
      [] step = "copy"   -> IF Truthy(pkey) THEN "pkey" ELSE "count"
      [] step = "pkey"   -> "count"
      [] OTHER           -> "return"

\* Nothing catches an exception: a step that raised ends the run where it is.
Continue(ok, step, pkey) ==
    IF ok THEN [pc |-> StepAfter(step, pkey), status |-> "running"]
    ELSE [pc |-> step, status |-> "failed"]

\* One line of the run's record: what call `i` did at `step`.
Entry(i, step, t, ok, form, path, cols, n) ==
    [ip |-> i, step |-> step, table |-> t, ok |-> ok, form |-> form,
     path |-> path, cols |-> cols, n |-> n]

\* ------------------------------------------------------------------ calls

\* create_and_load_table(conn, prefix, filename, pkey), pkey a list or None
LoadCall(prefix, filename, pkey) ==
    [op |-> "load", prefix |-> prefix, filename |-> filename,
     pkey |-> pkey, table |-> <<>>, cols |-> <<>>]

Load(prefix, filename, pkey) == LoadCall(prefix, filename, Cols(pkey))

Unique(t, cols) ==
    [op |-> "unique", prefix |-> <<>>, filename |-> NoPath,
     pkey |-> None, table |-> t, cols |-> cols]

load_lahman_tables(data_dir) ==
    LET lahman_data == data_dir \o <<"lahman", "wrangled">>
        F(name) == Path(lahman_data, name)
    IN <<Load(lahman_, F(people_csv), <<"player_id">>),
         Unique(lahman_people, <<"retro_id">>),
         Load(lahman_, F(batting_csv), <<"player_id", "year_id", "stint">>),
         Load(lahman_, F(battingpost_csv), <<"player_id", "year_id", "round">>),
         Load(lahman_, F(pitching_csv), <<"player_id", "year_id", "stint">>),
         Load(lahman_, F(pitchingpost_csv), <<"player_id", "year_id", "round">>),
         Load(lahman_, F(fielding_csv), <<"player_id", "year_id", "stint", "pos">>),
         Load(lahman_, F(fieldingpost_csv), <<"player_id", "year_id", "round", "pos">>),
         Load(lahman_, F(parks_csv), <<"park_key">>),
         Load(lahman_, F(salaries_csv), <<"player_id", "year_id", "team_id">>),
         Load(lahman_, F(teams_csv), <<"team_id", "year_id">>),
         Unique(lahman_teams, <<"team_id_retro", "year_id">>)>>

load_retrosheet_tables(data_dir) ==
    LET retro_data == data_dir \o <<"retrosheet", "wrangled">>
        F(name) == Path(retro_data, name)
    IN <<Load(retro_, F(batting_csv_gz), <<"player_id", "game_id">>),
         Load(retro_, F(pitching_csv_gz), <<"player_id", "game_id">>),
         Load(retro_, F(fielding_csv_gz), <<"player_id", "game_id", "pos">>),
         Load(retro_, F(game_csv_gz), <<"game_id">>),
         Load(retro_, F(team_game_csv_gz), <<"team_id", "game_id">>)>>

\* data_dir = Path('../data')
DefaultDataDir == <<"..", "data">>

\* The calls main makes, given the parsed --data-dir flag.
MainScript(flag) ==
    LET data_dir == DefaultDataDir
    IN load_lahman_tables(data_dir) \o load_retrosheet_tables(data_dir)

\* ---------------------------------------------------------------- actions

Cur == script[ip]

Running(step) == status = "running" /\ pc = step

\* main, up to its first call: parse the flags, open the connection, fix the
\* data directory.
main ==
    /\ status = "start"
    /\ script' = MainScript(args_data_dir)
    /\ status' = "running"
    /\ ip' = 1
    /\ UNCHANGED <<args_data_dir, pc, table, df, db_dtypes, fs, db, trace, db0,
                   run, history>>

\* Entering create_and_load_table: the table name.
Call ==
    /\ Running("idle")
    /\ ip <= Len(script)
    /\ Cur.op = "load"
    /\ table' = TableName(Cur.prefix, Cur.filename)
    /\ pc' = StepAfter("call", Cur.pkey)
    /\ db0' = db
    /\ df' = EmptyMap
    /\ db_dtypes' = EmptyMap
    /\ UNCHANGED <<args_data_dir, script, ip, status, fs, db, trace, run, history>>

\* df = dh.from_csv_with_types(filename, nrows=0)
Read ==
    /\ Running("read")
    /\ LET r == from_csv_with_types(fs, Cur.filename)
           c == Continue(r.ok, "read", Cur.pkey)
       IN /\ df' = r.df
          /\ pc' = c.pc
          /\ status' = c.status
          /\ trace' = Append(trace, Entry(ip, "read", table, r.ok, "",
                                          Cur.filename, <<>>, 0))
    /\ UNCHANGED <<args_data_dir, script, ip, table, db_dtypes, fs, db, db0,
                   run, history>>

\* db_dtypes = dh.optimize_db_dtypes(df)
MapTypes ==
    /\ Running("types")
    /\ LET r == optimize_db_dtypes(df)
           c == Continue(r.ok, "types", Cur.pkey)
       IN /\ db_dtypes' = r.dtypes
          /\ pc' = c.pc
          /\ status' = c.status
          /\ trace' = Append(trace, Entry(ip, "types", table, r.ok, "",
                                          NoPath, <<>>, 0))
    /\ UNCHANGED <<args_data_dir, script, ip, table, df, fs, db, db0, run, history>>

\* conn.execute(f'DROP TABLE IF EXISTS {table} CASCADE')
Drop ==
    /\ Running("drop")
    /\ LET r == DropTableIfExists(db, table)
           c == Continue(r.ok, "drop", Cur.pkey)
       IN /\ db' = r.db
          /\ pc' = c.pc
          /\ status' = c.status
          /\ trace' = Append(trace, Entry(ip, "drop", table, r.ok, "",
                                          NoPath, <<>>, 0))
    /\ UNCHANGED <<args_data_dir, script, ip, table, df, db_dtypes, fs, db0,
                   run, history>>

\* df.to_sql(table, conn, index=False, dtype=db_dtypes)
Create ==
    /\ Running("create")
    /\ LET r == ToSql(db, table, df, db_dtypes)
           c == Continue(r.ok, "create", Cur.pkey)
       IN /\ db' = r.db
          /\ pc' = c.pc
          /\ status' = c.status
          /\ trace' = Append(trace, Entry(ip, "create", table, r.ok, "",
                                          NoPath, <<>>, 0))
    /\ UNCHANGED <<args_data_dir, script, ip, table, df, db_dtypes, fs, db0,
                   run, history>>

\* psql(cmd), cmd being the \copy command for the file
BulkCopy ==
    /\ Running("copy")
    /\ LET cmd == CopyCmd(table, Cur.filename)
           p1 == psql(db, fs, cmd)
           c == Continue(~p1.raised, "copy", Cur.pkey)
       IN /\ db' = p1.db
          /\ pc' = c.pc
          /\ status' = c.status
          /\ trace' = Append(trace, Entry(ip, "copy", cmd.table, p1.returncode = 0,
                                          cmd.form, cmd.path, <<>>, 0))
    /\ UNCHANGED <<args_data_dir, script, ip, table, df, db_dtypes, fs, db0,
                   run, history>>

\* conn.execute(f'ALTER TABLE {table} ADD PRIMARY KEY ({pkeys_str})')
AddKey ==
    /\ Running("pkey")
    /\ LET tokens == pkeys_str(Cur.pkey.cols)
           r == AddPrimaryKey(db, table, tokens)
           c == Continue(r.ok, "pkey", Cur.pkey)
       IN /\ db' = r.db
          /\ pc' = c.pc
          /\ status' = c.status
          /\ trace' = Append(trace, Entry(ip, "pkey", table, r.ok, "",
                                          NoPath, tokens, 0))
    /\ UNCHANGED <<args_data_dir, script, ip, table, df, db_dtypes, fs, db0,
                   run, history>>

\* rs = conn.execute(f'SELECT COUNT(*) from {table}'), and the log line
Count ==
    /\ Running("count")
    /\ LET ok == table \in DOMAIN db
           c == Continue(ok, "count", Cur.pkey)
       IN /\ pc' = c.pc
          /\ status' = c.status
          /\ trace' = Append(trace, Entry(ip, "count", table, ok, "",
                                          NoPath, <<>>, CountRows(db, table)))
    /\ UNCHANGED <<args_data_dir, script, ip, table, df, db_dtypes, fs, db, db0,
                   run, history>>

\* create_and_load_table returns to its caller.
Return ==
    /\ Running("return")
    /\ pc' = "idle"
    /\ ip' = ip + 1
    /\ UNCHANGED <<args_data_dir, script, status, table, df, db_dtypes, fs, db,
                   trace, db0, run, history>>

\* conn.execute('ALTER TABLE ... ADD CONSTRAINT ... UNIQUE (...)') in
\* load_lahman_tables
ExecUnique ==
    /\ Running("idle")
    /\ ip <= Len(script)
    /\ Cur.op = "unique"
    /\ LET r == AddUnique(db, Cur.table, Cur.cols)
       IN /\ db' = r.db
          /\ status' = IF r.ok THEN "running" ELSE "failed"
          /\ ip' = IF r.ok THEN ip + 1 ELSE ip
          /\ trace' = Append(trace, Entry(ip, "unique", Cur.table, r.ok, "",
                                          NoPath, Cur.cols, 0))
    /\ UNCHANGED <<args_data_dir, script, pc, table, df, db_dtypes, fs, db0,
                   run, history>>

\* logger.info('Finished'): every call returned.
Finished ==
    /\ Running("idle")
    /\ ip > Len(script)
    /\ status' = "done"
    /\ UNCHANGED <<args_data_dir, script, ip, pc, table, df, db_dtypes, fs, db,
                   trace, db0, run, history>>

\* ------------------------------------------------------------ environment

\* default of the --data-dir flag
FlagDefault == <<"..", "data">>

DataDirs == {FlagDefault, <<"mnt", "baseball">>}

\* The calls of a run over the data directory d.
CallsOver(d) == load_lahman_tables(d) \o load_retrosheet_tables(d)

CallsIn == [d \in DataDirs |-> CallsOver(d)]

DefaultCalls == CallsIn[FlagDefault]

LoadIdx == {k \in 1..Len(DefaultCalls) : DefaultCalls[k].op = "load"}

Faults == {"unreadable", "unclassifiable", "malformed", "dupkey", "dupother"}

\* A wrangled file of n rows over `cols`. Without a fault row k holds k in
\* every column; "dupkey" repeats one row, "dupother" varies only the first
\* key column.
MakeFile(cols, key, fault, n, gz) ==
    [readable  |-> fault # "unreadable",
     dtypes    |-> [c \in cols |->
                      IF fault = "unclassifiable" THEN "complex128" ELSE "object"],
     rows      |-> [k \in 1..n |-> [c \in cols |->
                      IF fault = "dupkey" THEN 1
                      ELSE IF fault = "dupother" /\ c # key[1] THEN 1
                      ELSE k]],
     malformed |-> fault = "malformed",
     gzipped   |-> gz]

\* The columns of the file a call loads: its key's, and those the run puts
\* a uniqueness constraint on.
FileColumns(calls, k) ==
    Range(calls[k].pkey.cols) \cup
    UNION {Range(calls[j].cols) : j \in {i \in 1..Len(calls) :
             /\ calls[i].op = "unique"
             /\ calls[i].table = TableName(calls[k].prefix, calls[k].filename)}}

\* The files under every data directory, the one of call `bad` with `fault`.
MainFiles(bad, fault, n) ==
    [p \in {CallsIn[d][k].filename : d \in DataDirs, k \in LoadIdx} |->
       LET k == CHOOSE i \in LoadIdx :
                   \E d \in DataDirs : CallsIn[d][i].filename = p
       IN MakeFile(FileColumns(DefaultCalls, k), DefaultCalls[k].pkey.cols,
                   IF k = bad THEN fault ELSE "none", n,
                   EndsWith(p.name, DotGz))]

\* A table left by an earlier load of an older file: other types, other rows.
PriorTable(cols, key) ==
    [cols |-> [c \in cols |-> "BigInteger"],
     rows |-> <<[c \in cols |-> 9]>>,
     pkey |-> key,
     uniq |-> {}]

PriorKinds == {"absent", "loaded", "partial"}

NoTables == [t \in {} |-> 0]

\* The database before the run: empty, holding every table of `calls` with
\* its key, or holding them without a key; colsOf[k] are the columns of the
\* table of call k.
PriorDb(kind, calls, colsOf) ==
    IF kind = "absent" THEN NoTables
    ELSE LET idx == {k \in 1..Len(calls) : calls[k].op = "load"}
             name(k) == TableName(calls[k].prefix, calls[k].filename)
         IN [t \in {name(k) : k \in idx} |->
               LET k == CHOOSE i \in idx : name(i) = t
                   key == calls[k].pkey
               IN PriorTable(colsOf[k],
                             IF kind = "loaded" /\ Truthy(key)
                                /\ NoDuplicates(key.cols)
                             THEN key.cols ELSE <<>>)]

Locals ==
    /\ ip = 1
    /\ pc = "idle"
    /\ table = <<>>
    /\ df = EmptyMap
    /\ db_dtypes = EmptyMap
    /\ trace = <<>>
    /\ run = 1
    /\ history = <<>>

\* The program before main runs: any flag value, any one faulty file (or
\* none), any of the prior databases.
Init ==
    /\ args_data_dir \in DataDirs
    /\ status = "start"
    /\ script = <<>>
    /\ Locals
    /\ \E n \in 0..MaxRows :
         \/ fs = MainFiles(0, "none", n)
         \/ \E bad \in LoadIdx, fault \in Faults : fs = MainFiles(bad, fault, n)
    /\ \E kind \in PriorKinds :
         db = PriorDb(kind, DefaultCalls,
                      [k \in 1..Len(DefaultCalls) |-> FileColumns(DefaultCalls, k)])
    /\ db0 = db

Next ==
    \/ main
    \/ Call
    \/ Read
    \/ MapTypes
    \/ Drop
    \/ Create
    \/ BulkCopy
    \/ AddKey
    \/ Count
    \/ Return
    \/ ExecUnique
    \/ Finished

Spec == Init /\ [][Next]_vars

\* --------------------------------------------- one load call, run again

Prefixes == {lahman_, retro_}

PlainSources ==
    {Path(FlagDefault \o <<"lahman", "wrangled">>, people_csv),
     Path(FlagDefault \o <<"retrosheet", "wrangled">>,
          <<"t","e","a","m","_","g","a","m","e",".","c","s","v">>),
     Path(<<"x.y">>, <<"t">>),
     Path(<<"d">>, <<"t",".","c",".","t">>),
     Path(<<>>, <<".","t">>)}

\* The same data under the other encoding: name.gz for name, and back.
Counterpart(p) ==
    IF EndsWith(p.name, DotGz)
    THEN Path(p.parts, SubSeq(p.name, 1, Len(p.name) - Len(DotGz)))
    ELSE Path(p.parts, p.name \o DotGz)

Sources == PlainSources \cup {Counterpart(p) : p \in PlainSources}

PKeyArgs ==
    {None, Cols(<<>>), Cols(<<"a">>), Cols(<<"b">>), Cols(<<"a", "b">>),
     Cols(<<"b", "a">>), Cols(<<"a", "a">>)}

RowVals == {[a |-> 1, b |-> 1], [a |-> 1, b |-> 2]}

RowSeqs == UNION {[1..n -> RowVals] : n \in 0..MaxRows}

\* What a source file can hold: nothing readable, a type the mapper cannot
\* classify, or typed rows that the copy accepts or rejects.
Contents ==
    {[readable |-> FALSE, dtypes |-> EmptyMap, rows |-> <<>>,
      malformed |-> FALSE, gzipped |-> FALSE],
     [readable |-> TRUE, dtypes |-> [a |-> "complex128", b |-> "object"],
      rows |-> <<>>, malformed |-> FALSE, gzipped |-> FALSE]}
    \cup
    {[readable |-> TRUE, dtypes |-> [a |-> "int16", b |-> "object"],
      rows |-> r, malformed |-> m, gzipped |-> FALSE] :
        r \in RowSeqs, m \in BOOLEAN}

\* One call of create_and_load_table by an operator: any prefix, source,
\* key argument, file content and prior table; the source exists plain and
\* compressed with the same content.
InitLoad ==
    /\ args_data_dir = FlagDefault
    /\ status = "running"
    /\ Locals
    /\ \E prefix \in Prefixes, p \in Sources, pkey \in PKeyArgs :
         script = <<LoadCall(prefix, p, pkey)>>
    /\ \E c \in Contents :
         fs = [p \in {script[1].filename, Counterpart(script[1].filename)} |->
                 [c EXCEPT !.gzipped = EndsWith(p.name, DotGz)]]
    /\ \E kind \in PriorKinds :
         db = PriorDb(kind, script, <<{"a", "b"}>>)
    /\ db0 = db

\* What a run left: how it ended and the table it was loading.
Outcome ==
    [call   |-> script[1],
     status |-> status,
     pc     |-> pc,
     table  |-> table,
     tbl    |-> IF table \in DOMAIN db THEN <<db[table]>> ELSE <<>>,
     trace  |-> trace]

Again(calls) ==
    /\ status \in {"done", "failed"}
    /\ run < MaxRuns
    /\ history' = Append(history, Outcome)
    /\ run' = run + 1
    /\ script' = calls
    /\ ip' = 1
    /\ pc' = "idle"
    /\ status' = "running"
    /\ table' = <<>>
    /\ df' = EmptyMap
    /\ db_dtypes' = EmptyMap
    /\ trace' = <<>>
    /\ db0' = db
    /\ UNCHANGED <<args_data_dir, fs, db>>

\* The operator runs the same load call again.
Rerun == Again(script)

\* The operator runs the load call on the source's other encoding.
RerunCounterpart ==
    Again(<<[script[1] EXCEPT !.filename = Counterpart(@)]>>)

NextLoad ==
    \/ Call
    \/ Read
    \/ MapTypes
    \/ Drop
    \/ Create
    \/ BulkCopy
    \/ AddKey
    \/ Count
    \/ Return
    \/ Finished
    \/ Rerun
    \/ RerunCounterpart

SpecLoad == InitLoad /\ [][NextLoad]_vars

\* ------------------------------------------------------------- properties

IsPrefix(a, b) == Len(a) <= Len(b) /\ SubSeq(b, 1, Len(a)) = a

Ended == status \in {"done", "failed"}

Last == history[Len(history)]

\* The table being loaded, if it exists.
NowTbl == IF table \in DOMAIN db THEN <<db[table]>> ELSE <<>>

\* The steps of call i in the run's record.
StepsOf(i) == {trace[j].step : j \in {x \in 1..Len(trace) : trace[x].ip = i}}

\* C1: when the bulk copy of a table fails, nothing catches it: the run has
\* failed there and that copy is the last thing it did (no retry, no step of
\* a later table); the table exists, created by this call, and has no key.
C1_CopyFailureEndsRun ==
    \A i \in 1..Len(trace) :
        (trace[i].step = "copy" /\ ~trace[i].ok) =>
            /\ i = Len(trace)
            /\ status = "failed"
            /\ pc = "copy"
            /\ ip = trace[i].ip
            /\ \E j \in 1..(i-1) :
                  /\ trace[j].step = "create"
                  /\ trace[j].ok
                  /\ trace[j].ip = trace[i].ip
                  /\ trace[j].table = trace[i].table
            /\ trace[i].table \in DOMAIN db
            /\ db[trace[i].table].pkey = <<>>
            /\ "pkey" \notin StepsOf(trace[i].ip)

\* A copy failed on a table that had a key before the run, with calls left.
C1_Witness ==
    /\ status = "failed"
    /\ pc = "copy"
    /\ ip < Len(script)
    /\ table \in DOMAIN db0
    /\ db0[table].pkey # <<>>
    /\ ~trace[Len(trace)].ok

\* The step the record may show right after entry e of a load.
FollowsInOrder(e, f) ==
    CASE e.step = "read"   -> f.step = "types" /\ f.ip = e.ip
      [] e.step = "types"  -> f.step = "drop" /\ f.ip = e.ip
      [] e.step = "drop"   -> f.step = "create" /\ f.ip = e.ip /\ f.table = e.table
      [] e.step = "create" -> f.step = "copy" /\ f.ip = e.ip /\ f.table = e.table
      [] e.step = "copy"   -> /\ f.ip = e.ip
                              /\ f.table = e.table
                              /\ f.step = IF Truthy(script[e.ip].pkey)
                                          THEN "pkey" ELSE "count"
      [] e.step = "pkey"   -> f.step = "count" /\ f.ip = e.ip /\ f.table = e.table
      [] OTHER             -> f.ip = e.ip + 1 /\ f.step \in {"read", "unique"}

\* C2: a call does drop, create, copy, key (only for a non-empty key list)
\* and count in this order after reading the types, each step only after the
\* one before succeeded; the key is added only right after a successful copy.
C2_StepsInOrder ==
    /\ \A i \in 1..Len(trace) :
          /\ (i = 1 => trace[i].step = "read")
          /\ (i < Len(trace) => trace[i].ok /\ FollowsInOrder(trace[i], trace[i+1]))
    /\ (status = "done" => trace[Len(trace)].step = "count")

\* A load with a key list went through all its steps, key after copy.
C2_Witness ==
    /\ status = "done"
    /\ Len(trace) = 7
    /\ trace[5].step = "copy"
    /\ trace[6].step = "pkey"
    /\ trace[6].ok

\* C3: the same load call run twice in succession on the unchanged file ends
\* the same way and leaves the same table (columns, types, rows, key) both
\* times, whatever the database held before; no call fails at the drop or
\* the create because the table is already there.
C3_SameTableBothTimes ==
    /\ (status = "failed" => pc \notin {"drop", "create"})
    /\ (Ended /\ history # <<>> /\ Last.call = script[1]) =>
          /\ Last.status = status
          /\ Last.pc = pc
          /\ Last.table = table
          /\ Last.tbl = NowTbl

\* The second of two equal calls has finished, keyed, over a prior table.
C3_Witness ==
    /\ status = "done"
    /\ history # <<>>
    /\ Last.call = script[1]
    /\ Last.status = "done"
    /\ db[table].pkey # <<>>
    /\ Len(db[table].rows) > 0
    /\ Last.trace[1].table \in DOMAIN db0

\* C4: when the call returns, the table holds exactly the rows of the source
\* file (N rows for N data rows, the count it reports), whatever a table of
\* that name held before.
C4_ExactlySourceRows ==
    Running("return") =>
        /\ table \in DOMAIN db
        /\ db[table].rows = fs[Cur.filename].rows
        /\ trace[Len(trace)].step = "count"
        /\ trace[Len(trace)].n = Len(fs[Cur.filename].rows)

\* A load of two rows returned over a table that held an old row.
C4_Witness ==
    /\ Running("return")
    /\ Len(fs[Cur.filename].rows) >= 2
    /\ table \in DOMAIN db0
    /\ Len(db0[table].rows) > 0

\* C5: when adding the primary key fails, the run has failed there and that
\* statement is the last thing it did (no cleanup, no count, no later
\* table); the table is left with all the rows of the file and no key.
C5_KeyFailureLeavesRows ==
    \A i \in 1..Len(trace) :
        (trace[i].step = "pkey" /\ ~trace[i].ok) =>
            /\ i = Len(trace)
            /\ status = "failed"
            /\ pc = "pkey"
            /\ ip = trace[i].ip
            /\ "count" \notin StepsOf(trace[i].ip)
            /\ trace[i].table \in DOMAIN db
            /\ db[trace[i].table].rows = fs[Cur.filename].rows
            /\ db[trace[i].table].pkey = <<>>

\* The key could not be added over duplicate rows, with calls left.
C5_Witness ==
    /\ status = "failed"
    /\ pc = "pkey"
    /\ ip < Len(script)
    /\ Len(db[table].rows) >= 2
    /\ ~KeyFits(db, table, Cur.pkey.cols)

\* A run's record without what names the source: the command form and path.
Masked(tr) == [i \in 1..Len(tr) |-> [tr[i] EXCEPT !.form = "", !.path = NoPath]]

CopyForms(tr) == {tr[i].form : i \in {x \in 1..Len(tr) : tr[x].step = "copy"}}

\* C6: a load from name.gz and a load from name with the same content take
\* the same steps with the same results, but for the form of the copy
\* command (through zcat for .gz, direct otherwise), and leave tables of the
\* same columns, types, key and row count.
C6_CompressionTransparent ==
    /\ CopyForms(trace) \subseteq
          {IF EndsWith(script[1].filename.name, DotGz)
           THEN "program zcat" ELSE "file"}
    /\ (Ended /\ history # <<>>
          /\ Last.call.filename = Counterpart(script[1].filename)) =>
          /\ Last.status = status
          /\ Last.pc = pc
          /\ Masked(Last.trace) = Masked(trace)
          /\ Len(Last.tbl) = Len(NowTbl)
          /\ Len(NowTbl) = 1 =>
                /\ Last.tbl[1].cols = NowTbl[1].cols
                /\ Last.tbl[1].pkey = NowTbl[1].pkey
                /\ Len(Last.tbl[1].rows) = Len(NowTbl[1].rows)

\* Both encodings of a source were loaded, through different commands.
C6_Witness ==
    /\ status = "done"
    /\ history # <<>>
    /\ Last.status = "done"
    /\ Last.call.filename = Counterpart(script[1].filename)
    /\ CopyForms(trace) # CopyForms(Last.trace)
    /\ Len(db[table].rows) > 0
    /\ db[table].pkey # <<>>

\* C7: the key statement is issued only for a non-empty key list, names the
\* caller's columns in the caller's order, and the key the table gets is
\* that list; with None or an empty list the table stays without a key.
C7_KeyAsGiven ==
    /\ \A i \in 1..Len(trace) :
          trace[i].step = "pkey" =>
             /\ Truthy(script[trace[i].ip].pkey)
             /\ ParseColumnList(trace[i].cols) = script[trace[i].ip].pkey.cols
             /\ trace[i].ok => db[trace[i].table].pkey = script[trace[i].ip].pkey.cols
    /\ (pc \in {"count", "return"} /\ ~Truthy(Cur.pkey)) =>
          /\ db[table].pkey = <<>>
          /\ "pkey" \notin StepsOf(ip)

\* The key (b, a) was asked for and is the key of the loaded table.
C7_Witness ==
    /\ status = "done"
    /\ script[1].pkey.cols = <<"b", "a">>
    /\ db[table].pkey = <<"b", "a">>
    /\ Len(db[table].rows) >= 2

\* C8: every source file the run reads lies under the directory given by
\* the --data-dir flag.
C8_ReadsUnderDataDir ==
    \A i \in 1..Len(trace) :
        trace[i].step \in {"read", "copy"} =>
            IsPrefix(args_data_dir, trace[i].path.parts)

\* C9: the table name is the prefix followed by the file's base name up to
\* its first dot, the directory playing no part: lahman_people for
\* people.csv, retro_team_game for team_game.csv.gz, and the same name for
\* a file and its compressed counterpart.
C9_TableNameFromBaseName ==
    /\ pc # "idle" =>
          LET name == Cur.filename.name IN
          /\ \E k \in 0..Len(name) :
                /\ table = Cur.prefix \o SubSeq(name, 1, k)
                /\ \A j \in 1..k : name[j] # "."
                /\ k = Len(name) \/ name[k + 1] = "."
          /\ (Cur.prefix = lahman_ /\ name = people_csv) => table = lahman_people
          /\ (Cur.prefix = retro_ /\ name = team_game_csv_gz) =>
                table = <<"r","e","t","r","o","_","t","e","a","m","_","g","a","m","e">>
    /\ (pc # "idle" /\ history # <<>>
          /\ Last.call.filename = Counterpart(Cur.filename)) =>
          Last.table = table

\* team_game.csv.gz was loaded after team_game.csv, under retro_.
C9_Witness ==
    /\ pc = "return"
    /\ Cur.prefix = retro_
    /\ Cur.filename.name = team_game_csv_gz
    /\ history # <<>>
    /\ Last.call.filename = Counterpart(Cur.filename)
    /\ table = Last.table

\* C10: when reading the source file or mapping its types fails, the call
\* has issued no statement: the database is as it was when the call began.
C10_FailedReadLeavesTable ==
    (status = "failed" /\ pc \in {"read", "types"}) =>
        /\ db = db0
        /\ StepsOf(ip) \subseteq {"read", "types"}
        /\ ~trace[Len(trace)].ok

\* The types could not be mapped and the keyed table of that name is intact.
C10_Witness ==
    /\ status = "failed"
    /\ pc = "types"
    /\ table \in DOMAIN db
    /\ db[table].pkey # <<>>
    /\ db[table] = db0[table]

====
